---- MODULE Spec2Model ----
(***************************************************************************)
(* Model of the two scripts of the repository that carry logic:            *)
(*   read.py                 - read_and_parse_dat, a line scanner that     *)
(*                             turns a solver log into a table;            *)
(*   analyze_surface_file.py - the dashboard script: loading of the        *)
(*                             surface.csv files, trace construction and   *)
(*                             the dropdown buttons.                       *)
(* Text is a sequence of one-character strings; the string operations of   *)
(* the source (strip, split, in, startswith, int, float) are computed on   *)
(* the characters.                                                         *)
(***************************************************************************)
EXTENDS Integers, Sequences, FiniteSets, TLC

(***************************************************************************)
(* Bounds                                                                  *)
(***************************************************************************)
MaxLines == 4

MaxSubdirs == 2

(***************************************************************************)
(* Text primitives (Python str methods used by read.py)                    *)
(***************************************************************************)
Digits == <<"0", "1", "2", "3", "4", "5", "6", "7", "8", "9">>

IsDigit(c) == \E d \in 1..10 : Digits[d] = c

DigitVal(c) == (CHOOSE d \in 1..10 : Digits[d] = c) - 1

IsSpace(c) == c \in {" ", "\t", "\n", "\r"}

RECURSIVE LStrip(_)
LStrip(s) == IF s = <<>> THEN s
             ELSE IF IsSpace(Head(s)) THEN LStrip(Tail(s)) ELSE s

RECURSIVE RStrip(_)
RStrip(s) == IF s = <<>> THEN s
             ELSE IF IsSpace(s[Len(s)]) THEN RStrip(SubSeq(s, 1, Len(s) - 1)) ELSE s

\* str.strip()
Strip(s) == RStrip(LStrip(s))

\* sub in s
Contains(s, sub) ==
    \E i \in 1..(Len(s) - Len(sub) + 1) : SubSeq(s, i, i + Len(sub) - 1) = sub

\* s.startswith(p)
StartsWith(s, p) == Len(s) >= Len(p) /\ SubSeq(s, 1, Len(p)) = p

\* position of the first occurrence of a character of cs in s, 0 if none
FirstOf(s, cs) ==
    IF \E i \in 1..Len(s) : s[i] \in cs
    THEN CHOOSE i \in 1..Len(s) : s[i] \in cs /\ \A j \in 1..(i - 1) : s[j] \notin cs
    ELSE 0

\* s.split('|')
RECURSIVE Split(_)
Split(s) ==
    LET i == FirstOf(s, {"|"})
    IN  IF i = 0 THEN <<s>>
        ELSE <<SubSeq(s, 1, i - 1)>> \o Split(SubSeq(s, i + 1, Len(s)))

NonEmpty(t) == t # <<>>

\* [p.strip() for p in s.split('|') if p.strip()]
Fields(s) ==
    LET p == Split(s)
    IN  SelectSeq([i \in 1..Len(p) |-> Strip(p[i])], NonEmpty)

(***************************************************************************)
(* int() and float() of a string                                           *)
(***************************************************************************)
IsSign(c) == c \in {"+", "-"}

Unsigned(s) == IF s # <<>> /\ IsSign(s[1]) THEN Tail(s) ELSE s

Negative(s) == s # <<>> /\ s[1] = "-"

\* digits, with single underscores allowed between digits
DigitGroup(s) ==
    /\ s # <<>>
    /\ \A i \in 1..Len(s) : IsDigit(s[i]) \/ s[i] = "_"
    /\ \A i \in 1..Len(s) :
          s[i] = "_" => /\ i > 1 /\ i < Len(s)
                        /\ IsDigit(s[i - 1]) /\ IsDigit(s[i + 1])

RECURSIVE DigitsVal(_, _)
DigitsVal(s, acc) ==
    IF s = <<>> THEN acc
    ELSE IF s[1] = "_" THEN DigitsVal(Tail(s), acc)
    ELSE DigitsVal(Tail(s), 10 * acc + DigitVal(s[1]))

NumDigits(s) == Cardinality({i \in 1..Len(s) : IsDigit(s[i])})

\* int(s) does not raise ValueError
IsInt(s) == DigitGroup(Unsigned(Strip(s)))

\* int(s)
IntOf(s) ==
    LET t == Strip(s)
        v == DigitsVal(Unsigned(t), 0)
    IN  [t |-> "int", v |-> IF Negative(t) THEN 0 - v ELSE v]

CaseFold(c) ==
    CASE c = "I" -> "i" [] c = "N" -> "n" [] c = "F" -> "f" [] c = "T" -> "t"
      [] c = "Y" -> "y" [] c = "A" -> "a" [] c = "E" -> "e" [] OTHER -> c

Folded(s) == [i \in 1..Len(s) |-> CaseFold(s[i])]

FloatWords == { <<"i", "n", "f">>, <<"n", "a", "n">>,
                <<"i", "n", "f", "i", "n", "i", "t", "y">> }

\* the parts of a decimal literal: integer part, fraction, exponent
Mantissa(u) == LET e == FirstOf(u, {"e"}) IN IF e = 0 THEN u ELSE SubSeq(u, 1, e - 1)

Exponent(u) == LET e == FirstOf(u, {"e"}) IN SubSeq(u, e + 1, Len(u))

HasExponent(u) == FirstOf(u, {"e"}) # 0

IntPart(m) == LET d == FirstOf(m, {"."}) IN IF d = 0 THEN m ELSE SubSeq(m, 1, d - 1)

FracPart(m) == LET d == FirstOf(m, {"."}) IN IF d = 0 THEN <<>> ELSE SubSeq(m, d + 1, Len(m))

IsDecimal(u) ==
    LET m == Mantissa(u)
    IN  /\ IntPart(m) = <<>> \/ DigitGroup(IntPart(m))
        /\ FracPart(m) = <<>> \/ DigitGroup(FracPart(m))
        /\ IntPart(m) # <<>> \/ FracPart(m) # <<>>
        /\ HasExponent(u) => DigitGroup(Unsigned(Exponent(u)))

\* float(s) does not raise ValueError
IsFloat(s) ==
    LET u == Folded(Unsigned(Strip(s)))
    IN  u \in FloatWords \/ IsDecimal(u)

\* m * 10^e with m not a multiple of 10 (0 is 0 * 10^0)
RECURSIVE Normal(_, _)
Normal(m, e) ==
    IF m = 0 THEN [m |-> 0, e |-> 0]
    ELSE IF m % 10 = 0 THEN Normal(m \div 10, e + 1)
    ELSE [m |-> m, e |-> e]

\* float(s), as an exact decimal
FloatOf(s) ==
    LET t == Strip(s)
        u == Folded(Unsigned(t))
        m == Mantissa(u)
        x == Exponent(u)
        xv == IF ~HasExponent(u) THEN 0
              ELSE IF Negative(x) THEN 0 - DigitsVal(Unsigned(x), 0)
              ELSE DigitsVal(Unsigned(x), 0)
        n == Normal(DigitsVal(IntPart(m) \o FracPart(m), 0), xv - NumDigits(FracPart(m)))
    IN  IF u \in FloatWords
        THEN [t |-> "float", neg |-> Negative(t), word |-> u]
        ELSE [t |-> "float", neg |-> Negative(t) /\ n.m # 0, m |-> n.m, e |-> n.e]

(***************************************************************************)
(* Input lines of read_and_parse_dat                                       *)
(***************************************************************************)
\* the token 'Inner_Iter'
Marker == <<"I", "n", "n", "e", "r", "_", "I", "t", "e", "r">>

\* "Inner_Iter": a header of one name
HeaderOne == Marker

\* "|Inner_Iter| Res|": a header of two names
HeaderTwo == <<"|">> \o Marker \o <<"|", " ", "R", "e", "s", "|">>

\* "+-+": a separator rule
RuleLine == <<"+", "-", "+">>

\* " ": a blank line
BlankLine == <<" ">>

\* "1"
RowOne == <<"1">>

\* "| 2|0.5|"
RowTwoA == <<"|", " ", "2", "|", "0", ".", "5", "|">>

\* "3|1"
RowTwoB == <<"3", "|", "1">>

\* "1|x": the second field is not a float
BadFloat == <<"1", "|", "x">>

\* "0.5|1": the first field is a float but not an integer
FloatFirst == <<"0", ".", "5", "|", "1">>

\* "+1": one integer field written with its sign
PlusRow == <<"+", "1">>

Lines == { HeaderOne, HeaderTwo, RuleLine, BlankLine, RowOne, RowTwoA, RowTwoB,
           BadFloat, FloatFirst, PlusRow }

\* the files of at most MaxLines lines
Files == UNION { [1..n -> Lines] : n \in 0..MaxLines }

(***************************************************************************)
(* State                                                                   *)
(***************************************************************************)
VARIABLES
    file,             \* read.py: the lines of the file at file_path
    pos,              \* read.py: number of lines the iterator f has yielded
    line_number,      \* read.py: line_number
    in_data_section,  \* read.py: in_data_section
    columns,          \* read.py: columns, <<>> for None and <<c>> for the list c
    data,             \* read.py: data
    out,              \* read.py: the lines printed by the scan
    pc,               \* read.py: "scan" in the loop, "done" after it, "idle"
    result,           \* read.py: what the call raised or returned
    subdirs,          \* analyze_surface_file.py: subdirs, each with its surface.csv
    data_csv,         \* analyze_surface_file.py: data, keyed by index in subdirs
    variables,        \* analyze_surface_file.py: variables
    traces,           \* analyze_surface_file.py: the traces of fig, in order
    buttons,          \* analyze_surface_file.py: buttons
    var_idx,          \* analyze_surface_file.py: var_idx of the running loop
    sub_idx,          \* analyze_surface_file.py: index of the running subdir loop
    dpc               \* analyze_surface_file.py: position in the script

parser_vars == <<file, pos, line_number, in_data_section, columns, data, out, pc, result>>

dash_vars == <<subdirs, data_csv, variables, traces, buttons, var_idx, sub_idx, dpc>>

vars == <<parser_vars, dash_vars>>

None == <<>>

(***************************************************************************)
(* read_and_parse_dat                                                      *)
(***************************************************************************)
\* stripped_line of the line the iterator yields next
stripped_line == Strip(file[pos + 1])

\* mutant: the header test uses startswith instead of in
IsHeader_StartsWith(s, in_data) == StartsWith(s, Marker) /\ ~in_data

\* mutant: the header test forgets the in_data_section flag
IsHeader_Always(s, in_data) == Contains(s, Marker)

\* 'Inner_Iter' in stripped_line and not in_data_section
IsHeader(s, in_data) == Contains(s, Marker) /\ ~in_data

\* mutant: the line after the header is not skipped
SkipSeparator_NoSkip(p, n) == p

\* mutant: next(f) without a default, past the end of the file
SkipSeparator_Unchecked(p, n) == p + 1

\* next(f, None): the iterator, at position p of n lines, moves on if it can
SkipSeparator(p, n) == IF p < n THEN p + 1 ELSE p

\* not stripped_line or stripped_line.startswith('+')
IsSkipped(s) == s = <<>> \/ StartsWith(s, <<"+">>)

\* mutant: the field count is compared with >= instead of ==
CountMatches_AtLeast(values, cols) == Len(values) >= Len(cols)

\* len(values) == len(columns)
CountMatches(values, cols) == Len(values) = Len(cols)

\* the conversions of a row raise no ValueError
Converts(values) ==
    IsInt(values[1]) /\ \A i \in 2..Len(values) : IsFloat(values[i])

\* [int(values[0])] + [float(val) for val in values[1:]]
parsed_values(values) ==
    [i \in 1..Len(values) |-> IF i = 1 THEN IntOf(values[i]) ELSE FloatOf(values[i])]

Init ==
    /\ file \in Files
    /\ pos = 0
    /\ line_number = 0
    /\ in_data_section = FALSE
    /\ columns = None
    /\ data = <<>>
    /\ out = <<>>
    /\ pc = "scan"
    /\ result = [kind |-> "none"]
    /\ subdirs = <<>> /\ data_csv = <<>> /\ variables = <<>> /\ traces = <<>>
    /\ buttons = <<>> /\ var_idx = 0 /\ sub_idx = 0 /\ dpc = "idle"

\* lines 22-27: the header is recognised
ReadHeader ==
    /\ pc = "scan" /\ pos < Len(file)
    /\ IsHeader(stripped_line, in_data_section)
    /\ line_number' = line_number + 1
    /\ columns' = <<Fields(stripped_line)>>
    /\ out' = Append(out, [kind |-> "header", line |-> line_number + 1])
    /\ in_data_section' = TRUE
    /\ pos' = SkipSeparator(pos + 1, Len(file))
    /\ UNCHANGED <<file, data, pc, result>>
    /\ UNCHANGED dash_vars

\* lines 18-29: a line before the header falls through both ifs
ReadPreamble ==
    /\ pc = "scan" /\ pos < Len(file)
    /\ ~IsHeader(stripped_line, in_data_section)
    /\ ~in_data_section
    /\ line_number' = line_number + 1
    /\ pos' = pos + 1
    /\ UNCHANGED <<file, in_data_section, columns, data, out, pc, result>>
    /\ UNCHANGED dash_vars

\* lines 30-31: blank and rule lines of the data section
ReadSkipped ==
    /\ pc = "scan" /\ pos < Len(file)
    /\ ~IsHeader(stripped_line, in_data_section)
    /\ in_data_section
    /\ IsSkipped(stripped_line)
    /\ line_number' = line_number + 1
    /\ pos' = pos + 1
    /\ UNCHANGED <<file, in_data_section, columns, data, out, pc, result>>
    /\ UNCHANGED dash_vars

\* mutant: a field-count mismatch ends the scan instead of continuing it
ReadMismatch_Break ==
    /\ pc = "scan" /\ pos < Len(file)
    /\ ~IsHeader(stripped_line, in_data_section)
    /\ in_data_section
    /\ ~IsSkipped(stripped_line)
    /\ ~CountMatches(Fields(stripped_line), columns[1])
    /\ line_number' = line_number + 1
    /\ pos' = Len(file)
    /\ out' = Append(out, [kind |-> "count", line |-> line_number + 1])
    /\ UNCHANGED <<file, in_data_section, columns, data, pc, result>>
    /\ UNCHANGED dash_vars

\* lines 33-36: the field count differs from the header's
ReadMismatch ==
    /\ pc = "scan" /\ pos < Len(file)
    /\ ~IsHeader(stripped_line, in_data_section)
    /\ in_data_section
    /\ ~IsSkipped(stripped_line)
    /\ ~CountMatches(Fields(stripped_line), columns[1])
    /\ line_number' = line_number + 1
    /\ pos' = pos + 1
    /\ out' = Append(out, [kind |-> "count", line |-> line_number + 1])
    /\ UNCHANGED <<file, in_data_section, columns, data, pc, result>>
    /\ UNCHANGED dash_vars

\* mutant: the except branch keeps the unconverted row
ReadInvalid_KeepsRow ==
    /\ pc = "scan" /\ pos < Len(file)
    /\ ~IsHeader(stripped_line, in_data_section)
    /\ in_data_section
    /\ ~IsSkipped(stripped_line)
    /\ CountMatches(Fields(stripped_line), columns[1])
    /\ ~Converts(Fields(stripped_line))
    /\ line_number' = line_number + 1
    /\ pos' = pos + 1
    /\ out' = Append(out, [kind |-> "invalid", line |-> line_number + 1])
    /\ data' = Append(data, [i \in 1..Len(Fields(stripped_line)) |->
                                [t |-> "str", v |-> Fields(stripped_line)[i]]])
    /\ UNCHANGED <<file, in_data_section, columns, pc, result>>
    /\ UNCHANGED dash_vars

\* lines 38-43: a conversion raises ValueError
ReadInvalid ==
    /\ pc = "scan" /\ pos < Len(file)
    /\ ~IsHeader(stripped_line, in_data_section)
    /\ in_data_section
    /\ ~IsSkipped(stripped_line)
    /\ CountMatches(Fields(stripped_line), columns[1])
    /\ ~Converts(Fields(stripped_line))
    /\ line_number' = line_number + 1
    /\ pos' = pos + 1
    /\ out' = Append(out, [kind |-> "invalid", line |-> line_number + 1])
    /\ UNCHANGED <<file, in_data_section, columns, data, pc, result>>
    /\ UNCHANGED dash_vars

\* lines 38-40: the row is appended
ReadRow ==
    /\ pc = "scan" /\ pos < Len(file)
    /\ ~IsHeader(stripped_line, in_data_section)
    /\ in_data_section
    /\ ~IsSkipped(stripped_line)
    /\ CountMatches(Fields(stripped_line), columns[1])
    /\ Converts(Fields(stripped_line))
    /\ line_number' = line_number + 1
    /\ pos' = pos + 1
    /\ data' = Append(data, parsed_values(Fields(stripped_line)))
    /\ UNCHANGED <<file, in_data_section, columns, out, pc, result>>
    /\ UNCHANGED dash_vars

\* lines 45-46
RaiseNoHeader ==
    /\ pc = "scan" /\ pos = Len(file)
    /\ columns = None
    /\ pc' = "done"
    /\ result' = [kind |-> "ValueError", msg |-> "Header with 'Inner_Iter' not found."]
    /\ UNCHANGED <<file, pos, line_number, in_data_section, columns, data, out>>
    /\ UNCHANGED dash_vars

\* lines 47-48
RaiseNoData ==
    /\ pc = "scan" /\ pos = Len(file)
    /\ columns # None
    /\ data = <<>>
    /\ pc' = "done"
    /\ result' = [kind |-> "ValueError", msg |-> "No valid data found after the header."]
    /\ UNCHANGED <<file, pos, line_number, in_data_section, columns, data, out>>
    /\ UNCHANGED dash_vars

\* mutant: the table is returned without the test for an empty data list
ReturnTable_Unchecked ==
    /\ pc = "scan" /\ pos = Len(file)
    /\ columns # None
    /\ pc' = "done"
    /\ result' = [kind |-> "DataFrame", columns |-> columns[1], rows |-> data]
    /\ UNCHANGED <<file, pos, line_number, in_data_section, columns, data, out>>
    /\ UNCHANGED dash_vars

\* line 49
ReturnTable ==
    /\ pc = "scan" /\ pos = Len(file)
    /\ columns # None
    /\ data # <<>>
    /\ pc' = "done"
    /\ result' = [kind |-> "DataFrame", columns |-> columns[1], rows |-> data]
    /\ UNCHANGED <<file, pos, line_number, in_data_section, columns, data, out>>
    /\ UNCHANGED dash_vars

Next ==
    \/ ReadHeader
    \/ ReadPreamble
    \/ ReadSkipped
    \/ ReadMismatch
    \/ ReadInvalid
    \/ ReadRow
    \/ RaiseNoHeader
    \/ RaiseNoData
    \/ ReturnTable

Spec == Init /\ [][Next]_vars

(***************************************************************************)
(* analyze_surface_file.py                                                 *)
(***************************************************************************)
\* the column lists of the surface.csv files
CsvColumns == { <<"y">>, <<"x">>, <<"x", "Heat_Flux">>, <<"Pressure", "x">>,
                <<"x", "Heat_Flux", "Pressure">> }

\* a subdirectory: without surface.csv, with one read_csv fails on, or with one
Subdir == { [csv |-> "missing", cols |-> <<>>], [csv |-> "unreadable", cols |-> <<>>] }
          \cup { [csv |-> "ok", cols |-> c] : c \in CsvColumns }

Listings == UNION { [1..n -> Subdir] : n \in 0..MaxSubdirs }

IsNotX(c) == c # "x"

InSeq(e, s) == \E i \in 1..Len(s) : s[i] = e

\* df.groupby('x').mean().reset_index(): x first, the other columns in order
GroupByX(cols) == <<"x">> \o SelectSeq(cols, IsNotX)

\* data[subdir] = df
Store(d, k, df) == [j \in (DOMAIN d) \cup {k} |-> IF j = k THEN df ELSE d[j]]

\* next(iter(data)): the key inserted first
FirstKey(d) == CHOOSE k \in DOMAIN d : \A j \in DOMAIN d : k <= j

\* total_traces = len(subdirs) * len(variables)
total_traces == Len(subdirs) * Len(variables)

\* lines 67-71: visible_list of the button of variable number v (from 0)
visible_list(v) ==
    LET start_idx == v * Len(subdirs)
        end_idx == start_idx + Len(subdirs)
    IN  [i \in 1..total_traces |-> (start_idx < i /\ i <= end_idx)]

\* data[subdir] raises KeyError
KeyMissing(d, k) == k \notin DOMAIN d

InitDash ==
    /\ subdirs \in Listings
    /\ data_csv = <<>>
    /\ variables = <<>>
    /\ traces = <<>>
    /\ buttons = <<>>
    /\ var_idx = 0
    /\ sub_idx = 0
    /\ dpc = "load"
    /\ file = <<>> /\ pos = 0 /\ line_number = 0 /\ in_data_section = FALSE
    /\ columns = None /\ data = <<>> /\ out = <<>> /\ pc = "idle"
    /\ result = [kind |-> "none"]

\* lines 10-22: one iteration of the loading loop
LoadSubdir ==
    /\ dpc = "load" /\ sub_idx < Len(subdirs)
    /\ LET d == subdirs[sub_idx + 1]
       IN  data_csv' = IF d.csv = "ok" /\ InSeq("x", d.cols)
                       THEN Store(data_csv, sub_idx + 1, GroupByX(d.cols))
                       ELSE data_csv
    /\ sub_idx' = sub_idx + 1
    /\ UNCHANGED <<subdirs, variables, traces, buttons, var_idx, dpc>>
    /\ UNCHANGED parser_vars

\* lines 25-27
ExitNoData ==
    /\ dpc = "load" /\ sub_idx = Len(subdirs)
    /\ DOMAIN data_csv = {}
    /\ dpc' = "exit"
    /\ UNCHANGED <<subdirs, data_csv, variables, traces, buttons, var_idx, sub_idx>>
    /\ UNCHANGED parser_vars

\* lines 29-33
ExitNoVariables ==
    /\ dpc = "load" /\ sub_idx = Len(subdirs)
    /\ DOMAIN data_csv # {}
    /\ SelectSeq(data_csv[FirstKey(data_csv)], IsNotX) = <<>>
    /\ dpc' = "exit"
    /\ UNCHANGED <<subdirs, data_csv, variables, traces, buttons, var_idx, sub_idx>>
    /\ UNCHANGED parser_vars

\* lines 29-44
SelectVariables ==
    /\ dpc = "load" /\ sub_idx = Len(subdirs)
    /\ DOMAIN data_csv # {}
    /\ SelectSeq(data_csv[FirstKey(data_csv)], IsNotX) # <<>>
    /\ variables' = SelectSeq(data_csv[FirstKey(data_csv)], IsNotX)
    /\ dpc' = "traces"
    /\ var_idx' = 0
    /\ sub_idx' = 0
    /\ UNCHANGED <<subdirs, data_csv, traces, buttons>>
    /\ UNCHANGED parser_vars

\* lines 47-48: the loops move to their next iteration, or end
NextIteration ==
    IF sub_idx + 1 < Len(subdirs)
    THEN sub_idx' = sub_idx + 1 /\ UNCHANGED <<var_idx, dpc>>
    ELSE /\ sub_idx' = 0
         /\ IF var_idx + 1 < Len(variables)
            THEN var_idx' = var_idx + 1 /\ UNCHANGED dpc
            ELSE var_idx' = 0 /\ dpc' = "buttons"

\* lines 49-61: the subdirectory has the variable, a trace is added
AddTrace ==
    /\ dpc = "traces"
    /\ ~KeyMissing(data_csv, sub_idx + 1)
    /\ InSeq(variables[var_idx + 1], data_csv[sub_idx + 1])
    /\ traces' = Append(traces, [variable |-> variables[var_idx + 1],
                                 subdir |-> sub_idx + 1,
                                 visible |-> (var_idx = 0)])
    /\ NextIteration
    /\ UNCHANGED <<subdirs, data_csv, variables, buttons>>
    /\ UNCHANGED parser_vars

\* line 49: the subdirectory's file lacks the variable
SkipTrace ==
    /\ dpc = "traces"
    /\ ~KeyMissing(data_csv, sub_idx + 1)
    /\ ~InSeq(variables[var_idx + 1], data_csv[sub_idx + 1])
    /\ NextIteration
    /\ UNCHANGED <<subdirs, data_csv, variables, traces, buttons>>
    /\ UNCHANGED parser_vars

\* line 49: data[subdir] of a subdirectory that was not loaded raises KeyError
TraceKeyError ==
    /\ dpc = "traces"
    /\ KeyMissing(data_csv, sub_idx + 1)
    /\ dpc' = "KeyError"
    /\ UNCHANGED <<subdirs, data_csv, variables, traces, buttons, var_idx, sub_idx>>
    /\ UNCHANGED parser_vars

\* lines 66-83: one iteration of the button loop
AddButton ==
    /\ dpc = "buttons"
    /\ buttons' = Append(buttons, [label |-> variables[var_idx + 1],
                                   visible |-> visible_list(var_idx)])
    /\ IF var_idx + 1 < Len(variables)
       THEN var_idx' = var_idx + 1 /\ UNCHANGED dpc
       ELSE var_idx' = 0 /\ dpc' = "done"
    /\ UNCHANGED <<subdirs, data_csv, variables, traces, sub_idx>>
    /\ UNCHANGED parser_vars

NextDash ==
    \/ LoadSubdir
    \/ ExitNoData
    \/ ExitNoVariables
    \/ SelectVariables
    \/ AddTrace
    \/ SkipTrace
    \/ TraceKeyError
    \/ AddButton

SpecDash == InitDash /\ [][NextDash]_vars

(***************************************************************************)
(* Properties of read_and_parse_dat                                        *)
(***************************************************************************)
\* index of the first line of the file that contains the marker, 0 if none
HeaderIdx ==
    IF \E i \in 1..Len(file) : Contains(file[i], Marker)
    THEN CHOOSE i \in 1..Len(file) :
            /\ Contains(file[i], Marker)
            /\ \A j \in 1..(i - 1) : ~Contains(file[j], Marker)
    ELSE 0

\* N, the number of names of the header line
HeaderWidth == Len(Fields(file[HeaderIdx]))

\* a data line: neither blank nor a rule line
IsDataLine(l) == Strip(l) # <<>> /\ Head(Strip(l)) # "+"

\* n non-empty fields, the first an integer and the others floats
IsValid(l, n) ==
    LET v == Fields(l)
    IN  /\ Len(v) = n
        /\ IsInt(v[1])
        /\ \A i \in 2..n : IsFloat(v[i])

\* the lines after the header and the line that follows it
DataSection == IF HeaderIdx = 0 THEN {} ELSE (HeaderIdx + 2)..Len(file)

ValidIdx == {i \in DataSection : IsDataLine(file[i]) /\ IsValid(file[i], HeaderWidth)}

RejectedIdx == {i \in DataSection : IsDataLine(file[i]) /\ ~IsValid(file[i], HeaderWidth)}

\* the rows of the valid lines from line i on, in the order of the lines
RECURSIVE ValidRowsFrom(_)
ValidRowsFrom(i) ==
    IF i > Len(file) THEN <<>>
    ELSE (IF i \in ValidIdx THEN <<parsed_values(Fields(file[i]))>> ELSE <<>>)
         \o ValidRowsFrom(i + 1)

\* the input has preamble lines, a header line and a separator line
WellFormed == HeaderIdx # 0 /\ HeaderIdx < Len(file)

\* C1 as stated: a well-formed input with a header of N names and M valid
\* data lines yields a table of N columns and M rows, in the order of the lines
\* (M = 0 included).
C1_TableOfValidRows ==
    (pc = "done" /\ WellFormed) =>
        /\ result.kind = "DataFrame"
        /\ Len(result.columns) = HeaderWidth
        /\ Len(result.rows) = Cardinality(ValidIdx)
        /\ result.rows = ValidRowsFrom(1)

\* C1 amended: a well-formed input with a header of N names and M >= 1 valid
\* data lines yields a table of N columns and M rows, in the order of the lines.
C1_TableOfValidRowsNonEmpty ==
    (pc = "done" /\ WellFormed /\ ValidIdx # {}) =>
        /\ result.kind = "DataFrame"
        /\ Len(result.columns) = HeaderWidth
        /\ Len(result.rows) = Cardinality(ValidIdx)
        /\ result.rows = ValidRowsFrom(1)

\* a header of two names was followed by two valid lines with different rows
C1_Witness ==
    /\ pc = "done" /\ result.kind = "DataFrame"
    /\ HeaderWidth = 2
    /\ Len(result.rows) = 2 /\ result.rows[1] # result.rows[2]

\* C2: a rejected data line (wrong field count, first field not an integer or
\* a later field not a float) is left out of the result and every valid data
\* line after it is in the returned table.
C2_RowFailuresRecoverable ==
    (pc = "done" /\ RejectedIdx # {}) =>
        /\ Len(data) = Cardinality(ValidIdx)
        /\ \A i \in RejectedIdx : \A j \in ValidIdx :
              j > i => /\ result.kind = "DataFrame"
                       /\ InSeq(parsed_values(Fields(file[j])), result.rows)

\* a rejected line was followed by a valid one
C2_Witness ==
    /\ pc = "done"
    /\ \E i \in RejectedIdx : \E j \in ValidIdx : j > i
    /\ result.kind = "DataFrame"

\* C3: the call raises the missing-header error exactly when no line of the
\* input contains the marker.
C3_MissingHeaderIff ==
    pc = "done" =>
        ((result.kind = "ValueError" /\ result.msg = "Header with 'Inner_Iter' not found.")
            <=> (\A i \in 1..Len(file) : ~Contains(file[i], Marker)))

\* a file of several lines, none with the marker, was scanned to its end
C3_Witness ==
    /\ pc = "done" /\ Len(file) >= 2 /\ HeaderIdx = 0
    /\ result.kind = "ValueError"

\* C4: a header with zero accepted rows ends in the no-data error, and every
\* outcome is a table of at least one row or a raised error.
C4_NoEmptyTable ==
    pc = "done" =>
        /\ (HeaderIdx # 0 /\ data = <<>>) =>
              (result.kind = "ValueError" /\ result.msg = "No valid data found after the header.")
        /\ (HeaderIdx # 0 /\ ValidIdx = {}) => result.kind = "ValueError"
        /\ result.kind \in {"ValueError", "DataFrame"}
        /\ result.kind = "DataFrame" => Len(result.rows) >= 1

\* the header was the last line of the file
C4_Witness ==
    /\ pc = "done" /\ HeaderIdx # 0 /\ HeaderIdx = Len(file)
    /\ result.kind = "ValueError"

\* a header followed by lines that are all blank, rules or malformed
C4_WitnessMalformed ==
    /\ pc = "done" /\ HeaderIdx # 0 /\ RejectedIdx # {} /\ ValidIdx = {}
    /\ result.kind = "ValueError"

\* C5 as stated: the diagnostic of a discarded row reports the 1-based
\* position in the file of the discarded line.
C5_DiagnosticLineNumber ==
    [][(Len(out') = Len(out) + 1 /\ out'[Len(out')].kind \in {"count", "invalid"})
          => out'[Len(out')].line = pos']_vars

\* C6: the header step consumes the next line without a row or a diagnostic
\* for it and without an error even at the end of the file; the header line is
\* no row; rows come only from the second line after the header on.
C6_SeparatorConsumed ==
    [][/\ (~in_data_section /\ in_data_section') =>
             /\ pos' = (IF pos + 2 <= Len(file) THEN pos + 2 ELSE Len(file))
             /\ data' = data
             /\ out' = Append(out, [kind |-> "header", line |-> line_number'])
             /\ pc' = "scan"
       /\ (data' # data \/ (Len(out') > Len(out) /\ out'[Len(out')].kind # "header")) =>
             (pos' = pos + 1 /\ pos' >= HeaderIdx + 2)
      ]_vars

\* the line after the header was a well-formed row and was not returned
C6_Witness ==
    /\ pc = "done" /\ WellFormed
    /\ IsDataLine(file[HeaderIdx + 1]) /\ IsValid(file[HeaderIdx + 1], HeaderWidth)
    /\ Len(data) = 1 /\ out = <<[kind |-> "header", line |-> HeaderIdx]>>

\* the header was the last line and the scan ended normally
C6_WitnessLast ==
    /\ pc = "scan" /\ in_data_section /\ HeaderIdx = Len(file) /\ pos = Len(file)

\* C7: every accumulated row has exactly as many fields as the schema has
\* columns, an integer first and floats after it; no row before the header.
C7_RowShape ==
    /\ ~in_data_section => data = <<>>
    /\ \A k \in 1..Len(data) :
          /\ columns # None
          /\ Len(data[k]) = Len(columns[1])
          /\ data[k][1].t = "int"
          /\ \A i \in 2..Len(data[k]) : data[k][i].t = "float"

\* rows of two fields were accumulated and lines of other widths were met
C7_Witness ==
    /\ Len(data) >= 1 /\ Len(data[1]) = 2
    /\ \E d \in 1..Len(out) : out[d].kind = "count"

\* C8: the scanner enters the data section once and stays there, the schema
\* is set by the first marker line only, and a later marker line is handled
\* as a data line: no second skip, field count first, then conversion.
C8_HeaderOnce ==
    [][/\ in_data_section => (in_data_section' /\ columns' = columns /\ pos' <= pos + 1)
       /\ columns' # columns => (columns = None /\ pos + 1 = HeaderIdx
                                 /\ columns' = <<Fields(file[HeaderIdx])>>)
       /\ (in_data_section /\ pos' = pos + 1 /\ Contains(file[pos'], Marker)
             /\ IsDataLine(file[pos'])) =>
             out' = Append(out, [kind |-> IF Len(Fields(file[pos'])) # Len(columns[1])
                                          THEN "count" ELSE "invalid",
                                 line |-> line_number'])
      ]_vars

\* a marker line of the data section was scanned
C8_Witness ==
    /\ pc = "done"
    /\ \E i \in DataSection : Contains(file[i], Marker)
    /\ Len(out) >= 2

\* C9: no row comes from a line that contains the marker.
C9_NoRowFromMarkerLine ==
    [][Len(data') > Len(data) => ~Contains(file[pos'], Marker)]_vars

\* a marker line with the schema's field count was scanned in the data section
C9_Witness ==
    /\ pc = "done"
    /\ \E i \in DataSection :
          Contains(file[i], Marker) /\ Len(Fields(file[i])) = HeaderWidth
    /\ result.kind = "DataFrame"

(***************************************************************************)
(* Properties of analyze_surface_file.py                                   *)
(***************************************************************************)
\* C10 as stated: once at least one surface.csv with an x column is loaded,
\* trace construction raises no error and the visibility mask of the button
\* of the k-th variable is as long as the list of traces and true exactly at
\* the traces of the k-th variable.
C10_MasksMatchTraces ==
    (dpc \notin {"idle", "load"} /\ DOMAIN data_csv # {}) =>
        /\ dpc # "KeyError"
        /\ \A k \in 1..Len(buttons) :
              /\ Len(buttons[k].visible) = Len(traces)
              /\ \A i \in 1..Len(traces) :
                    buttons[k].visible[i] <=> (traces[i].variable = variables[k])

====
